---- MODULE Spec2Model ----
(***************************************************************************)
(* ss-uri: parsing and serialising Shadowsocks URIs (SIP002 and the legacy *)
(* base64 form).  Texts are sequences of one-character strings, one per    *)
(* byte; a byte outside printable ASCII is written "xNN".  Every function  *)
(* of the crate is an operator computed as the code computes it; the       *)
(* url, base64 and percent-encoding crates the code calls are modelled by  *)
(* their documented behaviour on the inputs the model draws.               *)
(***************************************************************************)
EXTENDS Integers, Sequences, FiniteSets, TLC

VARIABLES
  calls,    \* the calls made so far on the data in hand, in order
  value,    \* the SSConfig or Method handed to the first call, or None
  text,     \* the text in hand: serialised by the first call, or received
  result,   \* the Result of parsing text, or None
  second    \* the outcome of the follow-up call, or None

vars == <<calls, value, text, result, second>>

\* Option values
None == [none |-> TRUE]

Some(x) == [none |-> FALSE, v |-> x]

---------------------------------------------------------------------------
(* Bytes and characters *)

ByteChar ==
  <<
    "x00", "x01", "x02", "x03", "x04", "x05", "x06", "x07",
    "x08", "x09", "x0A", "x0B", "x0C", "x0D", "x0E", "x0F",
    "x10", "x11", "x12", "x13", "x14", "x15", "x16", "x17",
    "x18", "x19", "x1A", "x1B", "x1C", "x1D", "x1E", "x1F",
    " ", "!", "\"", "#", "$", "%", "&", "'",
    "(", ")", "*", "+", ",", "-", ".", "/",
    "0", "1", "2", "3", "4", "5", "6", "7",
    "8", "9", ":", ";", "<", "=", ">", "?",
    "@", "A", "B", "C", "D", "E", "F", "G",
    "H", "I", "J", "K", "L", "M", "N", "O",
    "P", "Q", "R", "S", "T", "U", "V", "W",
    "X", "Y", "Z", "[", "\\", "]", "^", "_",
    "x60", "a", "b", "c", "d", "e", "f", "g",
    "h", "i", "j", "k", "l", "m", "n", "o",
    "p", "q", "r", "s", "t", "u", "v", "w",
    "x", "y", "z", "{", "|", "}", "~", "x7F",
    "x80", "x81", "x82", "x83", "x84", "x85", "x86", "x87",
    "x88", "x89", "x8A", "x8B", "x8C", "x8D", "x8E", "x8F",
    "x90", "x91", "x92", "x93", "x94", "x95", "x96", "x97",
    "x98", "x99", "x9A", "x9B", "x9C", "x9D", "x9E", "x9F",
    "xA0", "xA1", "xA2", "xA3", "xA4", "xA5", "xA6", "xA7",
    "xA8", "xA9", "xAA", "xAB", "xAC", "xAD", "xAE", "xAF",
    "xB0", "xB1", "xB2", "xB3", "xB4", "xB5", "xB6", "xB7",
    "xB8", "xB9", "xBA", "xBB", "xBC", "xBD", "xBE", "xBF",
    "xC0", "xC1", "xC2", "xC3", "xC4", "xC5", "xC6", "xC7",
    "xC8", "xC9", "xCA", "xCB", "xCC", "xCD", "xCE", "xCF",
    "xD0", "xD1", "xD2", "xD3", "xD4", "xD5", "xD6", "xD7",
    "xD8", "xD9", "xDA", "xDB", "xDC", "xDD", "xDE", "xDF",
    "xE0", "xE1", "xE2", "xE3", "xE4", "xE5", "xE6", "xE7",
    "xE8", "xE9", "xEA", "xEB", "xEC", "xED", "xEE", "xEF",
    "xF0", "xF1", "xF2", "xF3", "xF4", "xF5", "xF6", "xF7",
    "xF8", "xF9", "xFA", "xFB", "xFC", "xFD", "xFE", "xFF"
  >>

Chars == {ByteChar[i] : i \in 1..256}

Ord == [c \in Chars |-> (CHOOSE i \in 1..256 : ByteChar[i] = c) - 1]

Chr(b) == ByteChar[b + 1]

Bytes(s) == [i \in 1..Len(s) |-> Ord[s[i]]]

Text(bs) == [i \in 1..Len(bs) |-> Chr(bs[i])]

Digits == {ByteChar[i] : i \in 49..58}

UpperAlpha == {ByteChar[i] : i \in 66..91}

LowerAlpha == {ByteChar[i] : i \in 98..123}

Alpha == UpperAlpha \cup LowerAlpha

AlphaNumeric == Alpha \cup Digits

HexDigits == Digits \cup {"a", "b", "c", "d", "e", "f", "A", "B", "C", "D", "E", "F"}

HexUpper == <<"0", "1", "2", "3", "4", "5", "6", "7", "8", "9", "A", "B", "C", "D", "E", "F">>

HexVal(c) ==
  IF c \in Digits THEN Ord[c] - 48
  ELSE IF c \in UpperAlpha THEN Ord[c] - 55
  ELSE Ord[c] - 87

ToLower(c) == IF c \in UpperAlpha THEN Chr(Ord[c] + 32) ELSE c

Lowercase(s) == [i \in 1..Len(s) |-> ToLower(s[i])]

---------------------------------------------------------------------------
(* str helpers of the Rust standard library, as the code uses them *)

MinOf(S) == CHOOSE x \in S : \A y \in S : x <= y

MaxOf(S) == CHOOSE x \in S : \A y \in S : x >= y

\* str::find(c): index of the first occurrence, 0 when there is none
Find(s, c) ==
  LET I == {i \in 1..Len(s) : s[i] = c} IN IF I = {} THEN 0 ELSE MinOf(I)

\* str::rfind(c): index of the last occurrence, 0 when there is none
RFind(s, c) ==
  LET I == {i \in 1..Len(s) : s[i] = c} IN IF I = {} THEN 0 ELSE MaxOf(I)

\* str::find(pattern) for a two-character pattern
FindPair(s, a, b) ==
  LET I == {i \in 1..(Len(s) - 1) : s[i] = a /\ s[i + 1] = b}
  IN IF I = {} THEN 0 ELSE MinOf(I)

StartsWith(s, p) == Len(s) >= Len(p) /\ SubSeq(s, 1, Len(p)) = p

\* str::trim_end_matches(c)
TrimEndMatches(s, c) ==
  LET K == {i \in 1..Len(s) : s[i] # c}
  IN IF K = {} THEN <<>> ELSE SubSeq(s, 1, MaxOf(K))

\* str::trim_start_matches(c)
TrimStartMatches(s, c) ==
  LET K == {i \in 1..Len(s) : s[i] # c}
  IN IF K = {} THEN <<>> ELSE SubSeq(s, MinOf(K), Len(s))

\* str::trim_matches(c)
TrimMatches(s, c) == TrimStartMatches(TrimEndMatches(s, c), c)

\* str::split(c).collect(): the segments between the occurrences of c
RECURSIVE SplitChar(_, _)
SplitChar(s, c) ==
  LET i == Find(s, c)
  IN IF i = 0 THEN <<s>>
     ELSE <<SubSeq(s, 1, i - 1)>> \o SplitChar(SubSeq(s, i + 1, Len(s)), c)

\* str::split(pattern).collect() for a two-character pattern
RECURSIVE SplitPair(_, _, _)
SplitPair(s, a, b) ==
  LET i == FindPair(s, a, b)
  IN IF i = 0 THEN <<s>>
     ELSE <<SubSeq(s, 1, i - 1)>> \o SplitPair(SubSeq(s, i + 2, Len(s)), a, b)

\* [&str]::join(sep)
RECURSIVE Join(_, _)
Join(parts, sep) ==
  IF Len(parts) = 0 THEN <<>>
  ELSE IF Len(parts) = 1 THEN parts[1]
  ELSE parts[1] \o sep \o Join(Tail(parts), sep)

\* decimal rendering of a number, as format!("{}") gives it
RECURSIVE DecimalText(_)
DecimalText(n) ==
  IF n < 10 THEN <<Chr(48 + n)>>
  ELSE DecimalText(n \div 10) \o <<Chr(48 + (n % 10))>>

\* value of a non-empty text of decimal digits
RECURSIVE DecimalValue(_)
DecimalValue(s) ==
  IF Len(s) = 0 THEN 0
  ELSE 10 * DecimalValue(SubSeq(s, 1, Len(s) - 1)) + (Ord[s[Len(s)]] - 48)

AllDigits(s) == \A i \in 1..Len(s) : s[i] \in Digits

---------------------------------------------------------------------------
(* Result values *)

Ok(v) == [ok |-> TRUE, value |-> v]

Err(e) == [ok |-> FALSE, error |-> e]

IsOk(r) == r # None /\ r.ok

---------------------------------------------------------------------------
(* base64 crate, standard alphabet: encode pads with '=', decode accepts   *)
(* padded and unpadded input and rejects non-zero trailing bits            *)

Base64Alphabet == <<"A", "B", "C", "D", "E", "F", "G", "H", "I", "J", "K", "L", "M", "N", "O", "P", "Q", "R", "S", "T", "U", "V", "W", "X", "Y", "Z", "a", "b", "c", "d", "e", "f", "g", "h", "i", "j", "k", "l", "m", "n", "o", "p", "q", "r", "s", "t", "u", "v", "w", "x", "y", "z", "0", "1", "2", "3", "4", "5", "6", "7", "8", "9", "+", "/">>

Base64Chars == {Base64Alphabet[i] : i \in 1..64}

Base64Value == [c \in Base64Chars |-> (CHOOSE i \in 1..64 : Base64Alphabet[i] = c) - 1]

Sym(v) == Base64Alphabet[v + 1]

RECURSIVE EncodeBytes(_)
EncodeBytes(b) ==
  LET n == Len(b) IN
  IF n = 0 THEN <<>>
  ELSE IF n = 1 THEN
    <<Sym(b[1] \div 4), Sym((b[1] % 4) * 16), "=", "=">>
  ELSE IF n = 2 THEN
    <<Sym(b[1] \div 4), Sym((b[1] % 4) * 16 + (b[2] \div 16)),
      Sym((b[2] % 16) * 4), "=">>
  ELSE
    <<Sym(b[1] \div 4), Sym((b[1] % 4) * 16 + (b[2] \div 16)),
      Sym((b[2] % 16) * 4 + (b[3] \div 64)), Sym(b[3] % 64)>>
    \o EncodeBytes(SubSeq(b, 4, n))

\* base64::encode(text)
base64_encode(s) == EncodeBytes(Bytes(s))

RECURSIVE DecodeSymbols(_)
DecodeSymbols(v) ==
  LET n == Len(v) IN
  IF n < 2 THEN <<>>
  ELSE IF n = 2 THEN <<v[1] * 4 + (v[2] \div 16)>>
  ELSE IF n = 3 THEN
    <<v[1] * 4 + (v[2] \div 16), (v[2] % 16) * 16 + (v[3] \div 4)>>
  ELSE
    <<v[1] * 4 + (v[2] \div 16), (v[2] % 16) * 16 + (v[3] \div 4),
      (v[3] % 4) * 64 + v[4]>>
    \o DecodeSymbols(SubSeq(v, 5, n))

\* the decoding of the symbols left once the '=' at the end of an input of
\* n characters are set aside
DecodeData(n, data) ==
  LET m      == Len(data)
      badPad == \E i \in (m + 1)..n : (i - 1) % 4 < 2
      last   == IF m = 0 THEN 0 ELSE Base64Value[data[m]]
      trail  == \/ (m % 4 = 2 /\ last % 16 # 0)
                \/ (m % 4 = 3 /\ last % 4 # 0)
  IN IF \E i \in 1..m : data[i] \notin Base64Chars THEN Err("DecodeError")
     ELSE IF n % 4 = 1 \/ m % 4 = 1 \/ badPad \/ trail THEN Err("DecodeError")
     ELSE Ok(DecodeSymbols([i \in 1..m |-> Base64Value[data[i]]]))

\* base64::decode(text): Ok(bytes) or Err("DecodeError")
base64_decode(s) == DecodeData(Len(s), TrimEndMatches(s, "="))

---------------------------------------------------------------------------
(* UTF-8, as String::from_utf8 and from_utf8_lossy treat it *)

IsCont(b) == b >= 128 /\ b <= 191

\* the length of the well-formed scalar value starting at bs[i], or 0, and
\* the length of the ill-formed prefix from_utf8_lossy replaces there
Utf8Step(bs, i) ==
  LET n  == Len(bs)
      b1 == bs[i]
      b2 == IF i + 1 <= n THEN bs[i + 1] ELSE 0
      b3 == IF i + 2 <= n THEN bs[i + 2] ELSE 0
      b4 == IF i + 3 <= n THEN bs[i + 3] ELSE 0
      lo == IF b1 = 224 THEN 160 ELSE IF b1 = 240 THEN 144 ELSE 128
      hi == IF b1 = 237 THEN 159 ELSE IF b1 = 244 THEN 143 ELSE 191
      w  == IF b1 < 128 THEN 1
            ELSE IF b1 >= 194 /\ b1 <= 223 THEN 2
            ELSE IF b1 >= 224 /\ b1 <= 239 THEN 3
            ELSE IF b1 >= 240 /\ b1 <= 244 THEN 4
            ELSE 0
      ok2 == i + 1 <= n /\ b2 >= lo /\ b2 <= hi
      ok3 == i + 2 <= n /\ IsCont(b3)
      ok4 == i + 3 <= n /\ IsCont(b4)
  IN IF w = 1 THEN [good |-> 1, bad |-> 0]
     ELSE IF w = 0 THEN [good |-> 0, bad |-> 1]
     ELSE IF ~ok2 THEN [good |-> 0, bad |-> 1]
     ELSE IF w = 2 THEN [good |-> 2, bad |-> 0]
     ELSE IF ~ok3 THEN [good |-> 0, bad |-> 2]
     ELSE IF w = 3 THEN [good |-> 3, bad |-> 0]
     ELSE IF ~ok4 THEN [good |-> 0, bad |-> 3]
     ELSE [good |-> 4, bad |-> 0]

RECURSIVE Utf8ValidFrom(_, _)
Utf8ValidFrom(bs, i) ==
  IF i > Len(bs) THEN TRUE
  ELSE LET st == Utf8Step(bs, i)
       IN st.good > 0 /\ Utf8ValidFrom(bs, i + st.good)

\* String::from_utf8(bytes): Ok(text) or Err("FromUtf8Error")
from_utf8(bs) ==
  IF Utf8ValidFrom(bs, 1) THEN Ok(Text(bs)) ELSE Err("FromUtf8Error")

Replacement == <<239, 191, 189>>

RECURSIVE LossyFrom(_, _)
LossyFrom(bs, i) ==
  IF i > Len(bs) THEN <<>>
  ELSE LET st == Utf8Step(bs, i)
       IN IF st.good > 0
          THEN SubSeq(bs, i, i + st.good - 1) \o LossyFrom(bs, i + st.good)
          ELSE Replacement \o LossyFrom(bs, i + st.bad)

\* String::from_utf8_lossy(bytes)
from_utf8_lossy(bs) == Text(LossyFrom(bs, 1))

---------------------------------------------------------------------------
(* percent-encoding crate *)

PercentByte(b) == <<"%", HexUpper[(b \div 16) + 1], HexUpper[(b % 16) + 1]>>

\* percent_encode(text, set): every byte in the set becomes %XX
RECURSIVE PercentEncode(_, _)
PercentEncode(s, set) ==
  IF Len(s) = 0 THEN <<>>
  ELSE (IF Head(s) \in set THEN PercentByte(Ord[Head(s)]) ELSE <<Head(s)>>)
       \o PercentEncode(Tail(s), set)

\* the NON_ALPHANUMERIC set: every byte that is not an ASCII letter or digit
NON_ALPHANUMERIC == Chars \ AlphaNumeric

NonAscii == {ByteChar[i] : i \in 129..256}

C0Control == {ByteChar[i] : i \in 1..32} \cup {ByteChar[128]}

\* percent_decode_str(text): %XX with two hex digits becomes the byte
RECURSIVE PercentDecodeBytes(_)
PercentDecodeBytes(s) ==
  IF Len(s) = 0 THEN <<>>
  ELSE IF Len(s) >= 3 /\ s[1] = "%" /\ s[2] \in HexDigits /\ s[3] \in HexDigits
    THEN <<16 * HexVal(s[2]) + HexVal(s[3])>>
         \o PercentDecodeBytes(SubSeq(s, 4, Len(s)))
    ELSE <<Ord[Head(s)]>> \o PercentDecodeBytes(Tail(s))

\* percent_decode_str(text).decode_utf8_lossy()
percent_decode_lossy(s) == from_utf8_lossy(PercentDecodeBytes(s))

---------------------------------------------------------------------------
(* url::Host: parsing and Display.  A host is a Domain, an Ipv4 or an Ipv6 *)
(* value.  Domains are ASCII here (IDNA mapping reduces to lower-casing);  *)
(* the dotted IPv4 suffix of an IPv6 literal is not drawn by the model.    *)

Domain(name) == [kind |-> "Domain", name |-> name]

Ipv4(addr) == [kind |-> "Ipv4", addr |-> addr]

Ipv6(addr) == [kind |-> "Ipv6", addr |-> addr]

RECURSIVE RadixValue(_, _)
RadixValue(s, radix) ==
  IF Len(s) = 0 THEN 0
  ELSE radix * RadixValue(SubSeq(s, 1, Len(s) - 1), radix) + HexVal(s[Len(s)])

RadixDigits(s, radix) ==
  \A i \in 1..Len(s) : s[i] \in HexDigits /\ HexVal(s[i]) < radix

\* one dot-separated part of an IPv4 literal: decimal, 0x hexadecimal or
\* 0-prefixed octal; -1 when it is not a number (or too long to be one)
Ipv4Number(part) ==
  LET hex  == Len(part) >= 2 /\ part[1] = "0" /\ part[2] \in {"x", "X"}
      oct  == ~hex /\ Len(part) >= 2 /\ part[1] = "0"
      body == IF hex THEN SubSeq(part, 3, Len(part))
              ELSE IF oct THEN SubSeq(part, 2, Len(part)) ELSE part
      radix == IF hex THEN 16 ELSE IF oct THEN 8 ELSE 10
  IN IF Len(part) = 0 \/ Len(body) > 7 \/ ~RadixDigits(body, radix) THEN -1
     ELSE RadixValue(body, radix)

DropLastEmpty(parts) ==
  IF Len(parts) > 1 /\ parts[Len(parts)] = <<>>
  THEN SubSeq(parts, 1, Len(parts) - 1) ELSE parts

\* the dot-separated parts of a domain, a trailing empty one dropped
DotParts(domain) == DropLastEmpty(SplitChar(domain, "."))

IsNumberLabel(last) ==
  \/ (Len(last) > 0 /\ AllDigits(last))
  \/ (Len(last) >= 2 /\ last[1] = "0" /\ last[2] \in {"x", "X"}
      /\ RadixDigits(SubSeq(last, 3, Len(last)), 16))

\* url::host::ends_in_a_number
EndsInANumber(domain) == IsNumberLabel(DotParts(domain)[Len(DotParts(domain))])

Pow256 == <<1, 256, 65536, 16777216>>

Ipv4FromNumbers(nums) ==
  LET n == Len(nums) IN
  IF n > 4 \/ \E i \in 1..n : nums[i] < 0 THEN Err("InvalidIpv4Address")
  ELSE IF \E i \in 1..(n - 1) : nums[i] > 255 THEN Err("InvalidIpv4Address")
  ELSE IF n = 4 /\ nums[4] > 255 THEN Err("InvalidIpv4Address")
  ELSE IF n = 4 THEN Ok(Ipv4(nums))
  ELSE IF n > 1 /\ nums[n] >= 16777216 \div Pow256[n - 1]
    THEN Err("InvalidIpv4Address")
  ELSE Ok(Ipv4(SubSeq(nums, 1, n - 1)
               \o [j \in 1..(5 - n) |-> (nums[n] \div Pow256[5 - n - j + 1]) % 256]))

Ipv4Numbers(parts) == [i \in 1..Len(parts) |-> Ipv4Number(parts[i])]

\* url::host::parse_ipv4addr, for a text that ends in a number
ParseIpv4(domain) == Ipv4FromNumbers(Ipv4Numbers(DotParts(domain)))

HexGroup(g) == Len(g) >= 1 /\ Len(g) <= 4 /\ RadixDigits(g, 16)

Zeros(n) == [i \in 1..n |-> 0]

ColonGroups(s) == IF s = <<>> THEN <<>> ELSE SplitChar(s, ":")

GroupValues(groups) == [i \in 1..Len(groups) |-> RadixValue(groups[i], 16)]

\* the address whose pieces are lg, then zeros if compressed, then rg
Ipv6FromGroups(lg, rg, compressed) ==
  LET k == Len(lg) + Len(rg) IN
  IF /\ IF compressed THEN k <= 7 ELSE k = 8
     /\ \A i \in 1..Len(lg) : HexGroup(lg[i])
     /\ \A i \in 1..Len(rg) : HexGroup(rg[i])
  THEN Ok(Ipv6(GroupValues(lg) \o Zeros(8 - k) \o GroupValues(rg)))
  ELSE Err("InvalidIpv6Address")

Ipv6At(s, dc) ==
  IF dc = 0 THEN Ipv6FromGroups(SplitChar(s, ":"), <<>>, FALSE)
  ELSE Ipv6FromGroups(ColonGroups(SubSeq(s, 1, dc - 1)),
                      ColonGroups(SubSeq(s, dc + 2, Len(s))), TRUE)

\* url::host::parse_ipv6addr: hexadecimal groups with at most one "::"
ParseIpv6(s) == Ipv6At(s, FindPair(s, ":", ":"))

\* the characters url::Host::parse rejects in a domain
ForbiddenDomainChars ==
  C0Control \cup {" ", "#", "%", "/", ":", "<", ">", "?", "@", "[", "\\", "]", "^", "|"}

\* the characters url::Host::parse_opaque rejects
ForbiddenHostChars ==
  {"x00", "x09", "x0A", "x0D", " ", "#", "/", ":", "<", ">", "?", "@", "[", "\\", "]", "^", "|"}

\* the host a percent-decoded, lower-cased domain text stands for
DomainOrIpv4(domain) ==
  IF Len(domain) = 0 THEN Err("EmptyHost")
  ELSE IF \E i \in 1..Len(domain) : domain[i] \in NonAscii
    THEN Err("IdnaError")
  ELSE IF \E i \in 1..Len(domain) : domain[i] \in ForbiddenDomainChars
    THEN Err("InvalidDomainCharacter")
  ELSE IF EndsInANumber(domain) THEN ParseIpv4(domain)
  ELSE Ok(Domain(domain))

\* url::Host::parse(text)
Host_parse(input) ==
  IF Len(input) > 0 /\ input[1] = "[" THEN
    IF input[Len(input)] # "]" THEN Err("InvalidIpv6Address")
    ELSE ParseIpv6(SubSeq(input, 2, Len(input) - 1))
  ELSE DomainOrIpv4(Lowercase(percent_decode_lossy(input)))

\* url::Host::parse_opaque(text), the host of a URL whose scheme is not special
Host_parse_opaque(input) ==
  IF Len(input) > 0 /\ input[1] = "[" THEN
    IF input[Len(input)] # "]" THEN Err("InvalidIpv6Address")
    ELSE ParseIpv6(SubSeq(input, 2, Len(input) - 1))
  ELSE IF \E i \in 1..Len(input) : input[i] \in ForbiddenHostChars
    THEN Err("InvalidDomainCharacter")
  ELSE Ok(Domain(PercentEncode(input, C0Control \cup NonAscii)))

HexLower == <<"0", "1", "2", "3", "4", "5", "6", "7", "8", "9", "a", "b", "c", "d", "e", "f">>

RECURSIVE HexText(_)
HexText(n) ==
  IF n < 16 THEN <<HexLower[n + 1]>>
  ELSE HexText(n \div 16) \o <<HexLower[(n % 16) + 1]>>

\* the length of the run of zero pieces starting at index i
RECURSIVE ZeroRun(_, _)
ZeroRun(a, i) == IF i > 8 \/ a[i] # 0 THEN 0 ELSE 1 + ZeroRun(a, i + 1)

Ipv6Pieces(a, lo, hi) ==
  Join([i \in 1..(hi - lo + 1) |-> HexText(a[lo + i - 1])], <<":">>)

Ipv6Compressed(a, start, run) ==
  IF run < 2 THEN Ipv6Pieces(a, 1, 8)
  ELSE Ipv6Pieces(a, 1, start - 1) \o <<":", ":">> \o Ipv6Pieces(a, start + run, 8)

LongestZeroRun(a) == MaxOf({ZeroRun(a, i) : i \in 1..8})

FirstRunOf(a, run) == MinOf({i \in 1..8 : ZeroRun(a, i) = run})

\* Display of an Ipv6Addr: lower-case hexadecimal pieces, the first longest
\* run of two or more zero pieces written "::"
Ipv6Text(a) == Ipv6Compressed(a, FirstRunOf(a, LongestZeroRun(a)), LongestZeroRun(a))

Ipv4Text(a) ==
  Join([i \in 1..4 |-> DecimalText(a[i])], <<".">>)

\* Display of url::Host
HostText(host) ==
  IF host.kind = "Domain" THEN host.name
  ELSE IF host.kind = "Ipv4" THEN Ipv4Text(host.addr)
  ELSE <<"[">> \o Ipv6Text(host.addr) \o <<"]">>

---------------------------------------------------------------------------
(* url::Url::parse and the accessors the code reads.  The schemes drawn    *)
(* are not "file"; paths carry no dot segments.                            *)

SpecialSchemes == {<<"h", "t", "t", "p">>, <<"h", "t", "t", "p", "s">>, <<"w", "s">>, <<"w", "s", "s">>, <<"f", "t", "p">>}

\* url::parser::default_port, as the (scheme, port) pairs it knows
DefaultPorts ==
  {<<<<"h", "t", "t", "p">>, 80>>, <<<<"w", "s">>, 80>>, <<<<"h", "t", "t", "p", "s">>, 443>>, <<<<"w", "s", "s">>, 443>>, <<<<"f", "t", "p">>, 21>>}

HasDefaultPort(scheme) == \E p \in DefaultPorts : p[1] = scheme

DefaultPort(scheme) == (CHOOSE p \in DefaultPorts : p[1] = scheme)[2]

\* percent-encode sets of the url crate (non-ASCII bytes are always encoded)
FRAGMENT_SET == C0Control \cup NonAscii \cup {" ", "\"", "<", ">", "x60"}

QUERY_SET == C0Control \cup NonAscii \cup {" ", "\"", "#", "<", ">"}

PATH_SET == QUERY_SET \cup {"?", "x60", "{", "}"}

USERINFO_SET == PATH_SET \cup {"/", ":", ";", "=", "@", "[", "\\", "]", "^", "|"}

StripEnds(s, K) == IF K = {} THEN <<>> ELSE SubSeq(s, MinOf(K), MaxOf(K))

\* the input with leading and trailing C0 controls and spaces stripped and
\* every tab and newline removed
CleanInput(s) ==
  SelectSeq(StripEnds(s, {i \in 1..Len(s) : s[i] \notin {ByteChar[j] : j \in 1..33}}),
            LAMBDA c : c \notin {"x09", "x0A", "x0D"})

\* the index of the first character of s that is in set, Len(s) + 1 if none
FirstOf(s, set) ==
  LET I == {i \in 1..Len(s) : s[i] \in set}
  IN IF I = {} THEN Len(s) + 1 ELSE MinOf(I)

SchemeChars == AlphaNumeric \cup {"+", "-", "."}

\* the length of the host text at the head of hp: up to the first ':' that
\* is outside square brackets
RECURSIVE HostLen(_, _, _)
HostLen(hp, i, inside) ==
  IF i > Len(hp) THEN Len(hp)
  ELSE IF hp[i] = ":" /\ ~inside THEN i - 1
  ELSE HostLen(hp, i + 1, IF hp[i] = "[" THEN TRUE
                          ELSE IF hp[i] = "]" THEN FALSE ELSE inside)

PortFromDigits(p, sig, scheme) ==
  IF ~AllDigits(p) THEN Err("InvalidPort")
  ELSE IF Len(sig) > 5 THEN Err("InvalidPort")
  ELSE IF DecimalValue(sig) > 65535 THEN Err("InvalidPort")
  ELSE IF Len(p) = 0 THEN Ok(None)
  ELSE IF HasDefaultPort(scheme) /\ DefaultPort(scheme) = DecimalValue(sig)
    THEN Ok(None)
  ELSE Ok(Some(DecimalValue(sig)))

\* url::parser::Parser::parse_port on the text after the ':'
ParsePort(p, scheme) == PortFromDigits(p, TrimStartMatches(p, "0"), scheme)

\* path, query and fragment, for the text before the '#' and the fragment
TailParts(noFrg, q, fragment, special) ==
  [path |-> IF q = 0 THEN (IF special /\ Len(noFrg) = 0 THEN <<"/">>
                           ELSE PercentEncode(noFrg, PATH_SET))
            ELSE PercentEncode(SubSeq(noFrg, 1, q - 1), PATH_SET),
   query |-> IF q = 0 THEN None
             ELSE Some(PercentEncode(SubSeq(noFrg, q + 1, Len(noFrg)),
                                     IF special THEN QUERY_SET \cup {"'"} ELSE QUERY_SET)),
   fragment |-> fragment]

TailAt(rest, h, special) ==
  IF h = 0 THEN TailParts(rest, Find(rest, "?"), None, special)
  ELSE TailParts(SubSeq(rest, 1, h - 1), Find(SubSeq(rest, 1, h - 1), "?"),
                 Some(PercentEncode(SubSeq(rest, h + 1, Len(rest)), FRAGMENT_SET)),
                 special)

\* path, query and fragment of the text that follows the authority
ParseTail(rest, special) == TailAt(rest, Find(rest, "#"), special)

UrlRecord(scheme, username, host, port, tail) ==
  [scheme |-> scheme, username |-> username, host |-> host, port |-> port,
   path |-> tail.path, query |-> tail.query, fragment |-> tail.fragment]

\* the URL, once the host and the port of the authority are parsed
UrlFromHost(scheme, userinfo, hostStr, host, hasPort, port, rest) ==
  LET special == scheme \in SpecialSchemes
      colon   == Find(userinfo, ":")
      user    == IF colon = 0 THEN userinfo ELSE SubSeq(userinfo, 1, colon - 1)
      hasCred == Len(userinfo) > 0 /\ userinfo # <<":">>
      empty   == Len(hostStr) = 0
  IN IF empty /\ (special \/ hasPort \/ hasCred) THEN Err("EmptyHost")
     ELSE IF ~empty /\ ~host.ok THEN Err(host.error)
     ELSE IF ~port.ok THEN Err(port.error)
     ELSE Ok(UrlRecord(scheme, PercentEncode(user, USERINFO_SET),
                       IF empty THEN None ELSE Some(host.value),
                       port.value, ParseTail(rest, special)))

\* the host and port text hp that follows the userinfo
HostAndPort(scheme, userinfo, hp, hl, rest) ==
  UrlFromHost(scheme, userinfo, SubSeq(hp, 1, hl),
              IF scheme \in SpecialSchemes THEN Host_parse(SubSeq(hp, 1, hl))
              ELSE Host_parse_opaque(SubSeq(hp, 1, hl)),
              hl < Len(hp),
              IF hl < Len(hp) THEN ParsePort(SubSeq(hp, hl + 2, Len(hp)), scheme)
              ELSE Ok(None),
              rest)

\* the authority auth, split at its last '@'
SplitAuthority(scheme, auth, at, rest) ==
  IF at = 1 /\ Len(auth) = 1 /\ Len(rest) > 0 THEN Err("EmptyHost")
  ELSE HostAndPort(scheme,
                   IF at = 0 THEN <<>> ELSE SubSeq(auth, 1, at - 1),
                   SubSeq(auth, at + 1, Len(auth)),
                   HostLen(SubSeq(auth, at + 1, Len(auth)), 1, FALSE),
                   rest)

AuthorityAt(scheme, after, aend) ==
  SplitAuthority(scheme, SubSeq(after, 1, aend - 1),
                 RFind(SubSeq(after, 1, aend - 1), "@"),
                 SubSeq(after, aend, Len(after)))

\* the authority and what follows it, for the text after "scheme://"
ParseAuthority(scheme, after) ==
  AuthorityAt(scheme, after,
              FirstOf(after, IF scheme \in SpecialSchemes
                             THEN {"/", "?", "#", "\\"} ELSE {"/", "?", "#"}))

\* the text after "scheme:", lead being the number of slashes it starts with
AfterScheme(scheme, after, lead) ==
  IF scheme \in SpecialSchemes
    THEN ParseAuthority(scheme, SubSeq(after, lead + 1, Len(after)))
  ELSE IF lead >= 2
    THEN ParseAuthority(scheme, SubSeq(after, 3, Len(after)))
  ELSE Ok(UrlRecord(scheme, <<>>, None, None, ParseTail(after, FALSE)))

SchemeAt(s, c) ==
  IF c < 2 \/ s[1] \notin Alpha \/ \E i \in 1..(c - 1) : s[i] \notin SchemeChars
    THEN Err("RelativeUrlWithoutBase")
  ELSE AfterScheme(Lowercase(SubSeq(s, 1, c - 1)), SubSeq(s, c + 1, Len(s)),
                   FirstOf(SubSeq(s, c + 1, Len(s)),
                           IF Lowercase(SubSeq(s, 1, c - 1)) \in SpecialSchemes
                           THEN Chars \ {"/", "\\"} ELSE Chars \ {"/"}) - 1)

ParseClean(s) == SchemeAt(s, Find(s, ":"))

\* url::Url::parse(text): Ok(url) or Err(kind)
Url_parse(input) == ParseClean(CleanInput(input))

\* Url::host_str(): the host as the URL serialises it
host_str(url) == IF url.host = None THEN None ELSE Some(HostText(url.host.v))

\* Url::port_or_known_default()
port_or_known_default(url) ==
  IF url.port # None THEN url.port
  ELSE IF HasDefaultPort(url.scheme) THEN Some(DefaultPort(url.scheme))
  ELSE None

\* form_urlencoded decoding of one name or value: '+' is a space, then
\* percent-decoding, lossily as UTF-8
FormDecode(s) ==
  percent_decode_lossy([i \in 1..Len(s) |-> IF s[i] = "+" THEN " " ELSE s[i]])

\* a HashMap<String, String> is a function from keys to values
EmptyMap == <<>>

Insert(m, k, v) == [x \in DOMAIN m \cup {k} |-> IF x = k THEN v ELSE m[x]]

\* form_urlencoded::parse(text) collected into a HashMap: '&'-separated
\* pairs, empty ones skipped, each split at its first '=', later keys winning
RECURSIVE CollectPairs(_, _)
CollectPairs(pairs, m) ==
  IF Len(pairs) = 0 THEN m
  ELSE LET p  == Head(pairs)
           eq == Find(p, "=")
           k  == IF eq = 0 THEN p ELSE SubSeq(p, 1, eq - 1)
           v  == IF eq = 0 THEN <<>> ELSE SubSeq(p, eq + 1, Len(p))
       IN IF Len(p) = 0 THEN CollectPairs(Tail(pairs), m)
          ELSE CollectPairs(Tail(pairs), Insert(m, FormDecode(k), FormDecode(v)))

FormParse(input) == CollectPairs(SplitChar(input, "&"), EmptyMap)

\* form_urlencoded::byte_serialize of one name or value
FormUnreserved == AlphaNumeric \cup {"*", "-", ".", "_"}

RECURSIVE FormEncode(_)
FormEncode(s) ==
  IF Len(s) = 0 THEN <<>>
  ELSE (IF Head(s) \in FormUnreserved THEN <<Head(s)>>
        ELSE IF Head(s) = " " THEN <<"+">>
        ELSE PercentByte(Ord[Head(s)]))
       \o FormEncode(Tail(s))

---------------------------------------------------------------------------
(* method.rs: the encryption methods *)

Method ==
  {"Rc4Md5", "Aes128Gcm", "Aes192Gcm", "Aes256Gcm", "Aes128Cfb", "Aes192Cfb",
   "Aes256Cfb", "Aes128Ctr", "Aes192Ctr", "Aes256Ctr", "Camellia128Cfb",
   "Camellia192Cfb", "Camellia256Cfb", "BfCfb", "Chacha20IetfPoly1305",
   "Salsa20", "Chacha20", "Chacha20Ietf", "Xchacha20IetfPoly130"}

\* Method::as_str (Display and Debug print the same text)
as_str(m) ==
  CASE m = "Rc4Md5" -> <<"r", "c", "4", "-", "m", "d", "5">>
    [] m = "Aes128Gcm" -> <<"a", "e", "s", "-", "1", "2", "8", "-", "g", "c", "m">>
    [] m = "Aes192Gcm" -> <<"a", "e", "s", "-", "1", "9", "2", "-", "g", "c", "m">>
    [] m = "Aes256Gcm" -> <<"a", "e", "s", "-", "2", "5", "6", "-", "g", "c", "m">>
    [] m = "Aes128Cfb" -> <<"a", "e", "s", "-", "1", "2", "8", "-", "c", "f", "b">>
    [] m = "Aes192Cfb" -> <<"a", "e", "s", "-", "1", "9", "2", "-", "c", "f", "b">>
    [] m = "Aes256Cfb" -> <<"a", "e", "s", "-", "2", "5", "6", "-", "c", "f", "b">>
    [] m = "Aes128Ctr" -> <<"a", "e", "s", "-", "1", "2", "8", "-", "c", "t", "r">>
    [] m = "Aes192Ctr" -> <<"a", "e", "s", "-", "1", "9", "2", "-", "c", "t", "r">>
    [] m = "Aes256Ctr" -> <<"a", "e", "s", "-", "2", "5", "6", "-", "c", "t", "r">>
    [] m = "Camellia128Cfb" -> <<"c", "a", "m", "e", "l", "l", "i", "a", "-", "1", "2", "8", "-", "c", "f", "b">>
    [] m = "Camellia192Cfb" -> <<"c", "a", "m", "e", "l", "l", "i", "a", "-", "1", "9", "2", "-", "c", "f", "b">>
    [] m = "Camellia256Cfb" -> <<"c", "a", "m", "e", "l", "l", "i", "a", "-", "2", "5", "6", "-", "c", "f", "b">>
    [] m = "BfCfb" -> <<"b", "f", "-", "c", "f", "b">>
    [] m = "Chacha20IetfPoly1305" -> <<"c", "h", "a", "c", "h", "a", "2", "0", "-", "i", "e", "t", "f", "-", "p", "o", "l", "y", "1", "3", "0", "5">>
    [] m = "Salsa20" -> <<"s", "a", "l", "s", "a", "2", "0">>
    [] m = "Chacha20" -> <<"c", "h", "a", "c", "h", "a", "2", "0">>
    [] m = "Chacha20Ietf" -> <<"c", "h", "a", "c", "h", "a", "2", "0", "-", "i", "e", "t", "f">>
    [] m = "Xchacha20IetfPoly130" -> <<"x", "c", "h", "a", "c", "h", "a", "2", "0", "-", "i", "e", "t", "f", "-", "p", "o", "l", "y", "1", "3", "0", "5">>

\* a registry that folds case before it matches
try_from_folding_case(v) ==
  IF \E m \in Method : as_str(m) = Lowercase(v)
  THEN Ok(CHOOSE m \in Method : as_str(m) = Lowercase(v))
  ELSE Err("UnknownMethod")

\* impl TryFrom<&str> for Method (and FromStr, which calls it)
try_from(v) ==
  CASE v = <<"r", "c", "4", "-", "m", "d", "5">> -> Ok("Rc4Md5")
    [] v = <<"a", "e", "s", "-", "1", "2", "8", "-", "g", "c", "m">> -> Ok("Aes128Gcm")
    [] v = <<"a", "e", "s", "-", "1", "9", "2", "-", "g", "c", "m">> -> Ok("Aes192Gcm")
    [] v = <<"a", "e", "s", "-", "2", "5", "6", "-", "g", "c", "m">> -> Ok("Aes256Gcm")
    [] v = <<"a", "e", "s", "-", "1", "2", "8", "-", "c", "f", "b">> -> Ok("Aes128Cfb")
    [] v = <<"a", "e", "s", "-", "1", "9", "2", "-", "c", "f", "b">> -> Ok("Aes192Cfb")
    [] v = <<"a", "e", "s", "-", "2", "5", "6", "-", "c", "f", "b">> -> Ok("Aes256Cfb")
    [] v = <<"a", "e", "s", "-", "1", "2", "8", "-", "c", "t", "r">> -> Ok("Aes128Ctr")
    [] v = <<"a", "e", "s", "-", "1", "9", "2", "-", "c", "t", "r">> -> Ok("Aes192Ctr")
    [] v = <<"a", "e", "s", "-", "2", "5", "6", "-", "c", "t", "r">> -> Ok("Aes256Ctr")
    [] v = <<"c", "a", "m", "e", "l", "l", "i", "a", "-", "1", "2", "8", "-", "c", "f", "b">> -> Ok("Camellia128Cfb")
    [] v = <<"c", "a", "m", "e", "l", "l", "i", "a", "-", "1", "9", "2", "-", "c", "f", "b">> -> Ok("Camellia192Cfb")
    [] v = <<"c", "a", "m", "e", "l", "l", "i", "a", "-", "2", "5", "6", "-", "c", "f", "b">> -> Ok("Camellia256Cfb")
    [] v = <<"b", "f", "-", "c", "f", "b">> -> Ok("BfCfb")
    [] v = <<"c", "h", "a", "c", "h", "a", "2", "0", "-", "i", "e", "t", "f", "-", "p", "o", "l", "y", "1", "3", "0", "5">> -> Ok("Chacha20IetfPoly1305")
    [] v = <<"s", "a", "l", "s", "a", "2", "0">> -> Ok("Salsa20")
    [] v = <<"c", "h", "a", "c", "h", "a", "2", "0">> -> Ok("Chacha20")
    [] v = <<"c", "h", "a", "c", "h", "a", "2", "0", "-", "i", "e", "t", "f">> -> Ok("Chacha20Ietf")
    [] v = <<"x", "c", "h", "a", "c", "h", "a", "2", "0", "-", "i", "e", "t", "f", "-", "p", "o", "l", "y", "1", "3", "0", "5">> -> Ok("Xchacha20IetfPoly130")
    [] OTHER -> Err("UnknownMethod")

---------------------------------------------------------------------------
(* lib.rs: SSConfig, its serialisers and its parsers *)

SSConfig(host, port, method, password, tag, extra) ==
  [host |-> host, port |-> port, method |-> method, password |-> password,
   tag |-> tag, extra |-> extra]

\* a serialiser that writes a '#' for every tag that is present
get_hash_for_any_tag(tag) ==
  IF tag # None
  THEN <<"#">> \o PercentEncode(tag.v, NON_ALPHANUMERIC)
  ELSE <<>>

\* SSConfig::get_hash
get_hash(tag) ==
  IF tag # None /\ Len(tag.v) > 0
  THEN <<"#">> \o PercentEncode(tag.v, NON_ALPHANUMERIC)
  ELSE <<>>

\* SSConfig::encode_user_info
encode_user_info(method, password) ==
  TrimEndMatches(base64_encode(as_str(method) \o <<":">> \o password), "=")

\* SSConfig::encode_query; order is the order in which the HashMap yields
\* its keys, which the map does not fix
encode_query(extra, order) ==
  Join([i \in 1..Len(order) |->
          FormEncode(order[i]) \o <<"=">> \o FormEncode(extra[order[i]])],
       <<"&">>)

\* SSConfig::get_uri_formatted_host
get_uri_formatted_host(host) ==
  IF host.kind = "Domain" THEN host.name
  ELSE IF host.kind = "Ipv4" THEN Ipv4Text(host.addr)
  ELSE <<"[">> \o Ipv6Text(host.addr) \o <<"]">>

\* SSConfig::to_sip002
to_sip002(c, order) ==
  LET user_info == encode_user_info(c.method, c.password)
      query     == IF c.extra # None THEN encode_query(c.extra.v, order) ELSE <<>>
      hash      == get_hash(c.tag)
      host      == get_uri_formatted_host(c.host)
  IN <<"s", "s", ":", "/", "/">> \o user_info \o <<"@">> \o host \o <<":">> \o DecimalText(c.port)
     \o <<"/">> \o query \o hash

\* SSConfig::to_legacy_base64_encoded
to_legacy_base64_encoded(c) ==
  LET hash    == get_hash(c.tag)
      encoded == TrimEndMatches(
                   base64_encode(as_str(c.method) \o <<":">> \o c.password \o <<"@">>
                                 \o HostText(c.host) \o <<":">> \o DecimalText(c.port)),
                   "=")
  IN <<"s", "s", ":", "/", "/">> \o encoded \o hash

\* a normalisation that strips only the trailing '=' of each segment
remove_unsafe_padding_at_end_only(s) ==
  IF FindPair(s, "=", "@") # 0
  THEN Join([i \in 1..Len(SplitPair(s, "=", "@")) |->
               TrimEndMatches(SplitPair(s, "=", "@")[i], "=")],
            <<"@">>)
  ELSE s

\* SSConfig::remove_unsafe_padding
remove_unsafe_padding(s) ==
  IF FindPair(s, "=", "@") # 0
  THEN Join([i \in 1..Len(SplitPair(s, "=", "@")) |->
               TrimMatches(SplitPair(s, "=", "@")[i], "=")],
            <<"@">>)
  ELSE s

\* a check that accepts the scheme "ss" alone
validate_protocol_exact(url) ==
  IF url.scheme # <<"s", "s">> THEN Err("InvalidProtocol") ELSE Ok(<<>>)

\* SSConfig::validate_protocol
validate_protocol(url) ==
  IF ~StartsWith(url.scheme, <<"s", "s">>) THEN Err("InvalidProtocol") ELSE Ok(<<>>)

HostOrInvalidUrl(host) == IF host.ok THEN host ELSE Err("InvalidUrl")

\* SSConfig::extract_host
extract_host(url) ==
  IF url.host = None THEN Err("InvalidHost")
  ELSE HostOrInvalidUrl(Host_parse(HostText(url.host.v)))

\* SSConfig::extract_port
extract_port(url) ==
  LET port == port_or_known_default(url)
  IN IF port = None THEN Err("InvalidPort") ELSE Ok(port.v)

\* SSConfig::extract_hash
extract_hash(fragment) ==
  IF fragment = None THEN None ELSE Some(percent_decode_lossy(fragment.v))

\* SSConfig::extract_query
extract_query(url) ==
  FormParse(IF url.query = None THEN <<>> ELSE url.query.v)

\* the method and password of the split text, lines 244-253
MethodAndPassword(encoded_part, method) ==
  IF Len(encoded_part) < 1 THEN Err("InvalidMethod")
  ELSE IF ~method.ok THEN Err("InvalidMethod")
  ELSE IF Len(encoded_part) < 2 THEN Err("InvalidPassword")
  ELSE Ok([method |-> method.value, password |-> encoded_part[2]])

Utf8Userinfo(utf8) ==
  IF ~utf8.ok THEN Err("InvalidPassword")
  ELSE MethodAndPassword(SplitChar(utf8.value, ":"),
                         try_from(SplitChar(utf8.value, ":")[1]))

DecodedUserinfo(decoded) ==
  IF ~decoded.ok THEN Err("InvalidPassword")
  ELSE Utf8Userinfo(from_utf8(decoded.value))

\* SSConfig::extract_method_and_password
extract_method_and_password(input) == DecodedUserinfo(base64_decode(input))

\* a parser that keeps the map of query pairs even when it is empty
Sip002Config_keeping_empty_extra(host, port, query, mp, tag) ==
  IF ~host.ok THEN host
  ELSE IF ~port.ok THEN port
  ELSE IF ~mp.ok THEN mp
  ELSE Ok(SSConfig(host.value, port.value, mp.value.method, mp.value.password,
                   tag, Some(query)))

\* parse_sip002 once the URL is parsed, lines 156-171
Sip002Config(host, port, query, mp, tag) ==
  IF ~host.ok THEN host
  ELSE IF ~port.ok THEN port
  ELSE IF ~mp.ok THEN mp
  ELSE Ok(SSConfig(host.value, port.value, mp.value.method, mp.value.password,
                   tag, IF DOMAIN query = {} THEN None ELSE Some(query)))

Sip002FromUrl(url) ==
  IF ~url.ok THEN Err("InvalidUrl")
  ELSE IF ~validate_protocol(url.value).ok THEN validate_protocol(url.value)
  ELSE Sip002Config(extract_host(url.value), extract_port(url.value),
                    extract_query(url.value),
                    extract_method_and_password(url.value.username),
                    extract_hash(url.value.fragment))

\* SSConfig::parse_sip002
parse_sip002(s) == Sip002FromUrl(Url_parse(remove_unsafe_padding(s)))

U16FromDigits(digits, sig) ==
  IF Len(digits) = 0 \/ ~AllDigits(digits) \/ Len(sig) > 5 THEN Err("ParseIntError")
  ELSE IF DecimalValue(sig) > 65535 THEN Err("ParseIntError")
  ELSE Ok(DecimalValue(sig))

SkipPlus(p) == IF Len(p) > 0 /\ p[1] = "+" THEN Tail(p) ELSE p

\* str::parse::<u16>(): an optional '+', then digits, at most 65535
parse_u16(p) == U16FromDigits(SkipPlus(p), TrimStartMatches(SkipPlus(p), "0"))

\* parse_legacy_base64 from the host and port text on, lines 191-204
LegacyConfig(url, method, password, port, host) ==
  IF ~port.ok THEN Err("InvalidPort")
  ELSE IF ~host.ok THEN Err("InvalidHost")
  ELSE Ok(SSConfig(host.value, port.value, method.value, password,
                   extract_hash(url.fragment), None))

\* lines 191-193: the host and port texts around the last ':'
LegacyHostPort(url, method, password, remaining, last_colon) ==
  IF last_colon = 0 THEN Err("InvalidUrl")
  ELSE LegacyConfig(url, method, password,
         parse_u16(TrimStartMatches(SubSeq(remaining, last_colon, Len(remaining)), ":")),
         Host_parse(SubSeq(remaining, 1, last_colon - 1)))

\* lines 187-189: the password and the text after the last '@'
LegacyPassword(url, method, remaining, at_index) ==
  IF at_index = 0 THEN Err("InvalidUrl")
  ELSE LegacyHostPort(url, method, SubSeq(remaining, 1, at_index - 1),
         TrimStartMatches(SubSeq(remaining, at_index, Len(remaining)), "@"),
         RFind(TrimStartMatches(SubSeq(remaining, at_index, Len(remaining)), "@"), ":"))

LegacyAfterMethod(url, method, remaining) ==
  IF ~method.ok THEN Err("InvalidMethod")
  ELSE LegacyPassword(url, method, remaining, RFind(remaining, "@"))

\* lines 182-185: the method and the text after the first ':'
LegacyMethod(url, decoded_str, colon_index) ==
  IF colon_index = 0 THEN Err("InvalidUrl")
  ELSE LegacyAfterMethod(url, try_from(SubSeq(decoded_str, 1, colon_index - 1)),
         TrimStartMatches(SubSeq(decoded_str, colon_index, Len(decoded_str)), ":"))

LegacyUtf8(url, utf8) ==
  IF ~utf8.ok THEN Err("InvalidUrl")
  ELSE LegacyMethod(url, TrimEndMatches(utf8.value, "="),
                    Find(TrimEndMatches(utf8.value, "="), ":"))

LegacyDecoded(url, decoded) ==
  IF ~decoded.ok THEN Err("InvalidUrl")
  ELSE LegacyUtf8(url, from_utf8(decoded.value))

LegacyEncoded(url, encoded) ==
  IF encoded = None THEN Err("InvalidUrl")
  ELSE LegacyDecoded(url, base64_decode(encoded.v))

LegacyFromUrl(url) ==
  IF ~url.ok THEN Err("InvalidUrl")
  ELSE IF ~validate_protocol(url.value).ok THEN validate_protocol(url.value)
  ELSE LegacyEncoded(url.value, host_str(url.value))

\* SSConfig::parse_legacy_base64
parse_legacy_base64(s) == LegacyFromUrl(Url_parse(s))

\* a facade that reports the legacy parser's error when both parsers fail
parse_keeping_last_error(s) ==
  IF parse_sip002(s).ok THEN parse_sip002(s) ELSE parse_legacy_base64(s)

\* lines 145-149 of SSConfig::parse
LegacyOrFirstError(legacy_result, res) ==
  IF legacy_result.ok THEN legacy_result ELSE res

\* lines 141-144 of SSConfig::parse
Sip002OrLegacy(res, s) ==
  IF res.ok THEN res ELSE LegacyOrFirstError(parse_legacy_base64(s), res)

\* SSConfig::parse
parse(s) == Sip002OrLegacy(parse_sip002(s), s)

---------------------------------------------------------------------------
(* sip008.rs: the ssconf:// redirect *)

SIP008Config(location, cert_finger_print, http_method) ==
  [location |-> location, cert_finger_print |-> cert_finger_print,
   http_method |-> http_method]

\* SIP008Config::validate_protocol
SIP008Config_validate_protocol(url) ==
  IF ~StartsWith(url.scheme, <<"s", "s", "c", "o", "n", "f">>) THEN Err("InvalidProtocol") ELSE Ok(<<>>)

\* HashMap::get(key).cloned()
Get(params, key) == IF key \in DOMAIN params THEN Some(params[key]) ELSE None

\* lines 26-35: the configuration, once the fragment parameters are collected
Sip008FromParams(url, params) ==
  IF host_str(url) = None THEN Err("InvalidUrl")
  ELSE Ok(SIP008Config(
         <<"h", "t", "t", "p", "s", ":", "/", "/">> \o host_str(url).v \o <<":">>
           \o DecimalText(IF port_or_known_default(url) = None THEN 443
                          ELSE port_or_known_default(url).v)
           \o url.path,
         Get(params, <<"c", "e", "r", "t", "F", "p">>), Get(params, <<"h", "t", "t", "p", "M", "e", "t", "h", "o", "d">>)))

Sip008FromUrl(url) ==
  IF ~url.ok THEN Err("InvalidUrl")
  ELSE IF ~SIP008Config_validate_protocol(url.value).ok
    THEN SIP008Config_validate_protocol(url.value)
  ELSE Sip008FromParams(url.value,
         FormParse(IF url.value.fragment = None THEN <<>>
                   ELSE url.value.fragment.v))

\* SIP008Config::parse
SIP008Config_parse(input) == Sip008FromUrl(Url_parse(input))
---------------------------------------------------------------------------
(* The values and texts the calls are made on *)

MaxPasswordLen == 2

PasswordChars == {"t", ":", "@", "?"}

RECURSIVE TextsUpTo(_, _)
TextsUpTo(chars, n) ==
  IF n = 0 THEN {<<>>}
  ELSE LET shorter == TextsUpTo(chars, n - 1)
       IN shorter \cup {Append(s, c) : s \in shorter, c \in chars}

Passwords == TextsUpTo(PasswordChars, MaxPasswordLen)

\* the methods the configurations are built with
MethodsDrawn == {"Rc4Md5", "Aes128Gcm", "BfCfb"}

Hosts ==
  {Ipv4(<<192, 168, 100, 1>>),
   Ipv6(<<8193, 0, 52809, 30209, 59494, 61439, 25283, 65534>>),
   Ipv6(<<8193, 0, 0, 0, 0, 0, 0, 65534>>),
   Domain(<<"e", "x", "a", "m", "p", "l", "e", ".", "c", "o", "m">>)}

Ports == {80, 8888}

Tags == {None, Some(<<"F", "o", "o", " ", "B", "a", "r">>)}

\* the empty tag, and one with a reserved and a non-ASCII character ("a#é")
OtherTags == {Some(<<>>), Some(<<"a", "#", "xC3", "xA9">>)}

FooOne == Insert(EmptyMap, <<"f", "o", "o">>, <<"1">>)

Extras == {None, Some(FooOne), Some(Insert(FooOne, <<"b", "a", "r">>, <<"2">>))}

\* configurations without metadata, and a few with
Configs ==
  {SSConfig(h, p, m, pw, tag, None) :
     h \in Hosts, p \in Ports, m \in MethodsDrawn, pw \in Passwords, tag \in Tags}
  \cup
  {SSConfig(h, 8888, "Rc4Md5", <<"p", "a", "s", "s", "w", "d">>, tag, Some(x.v)) :
     h \in Hosts, tag \in Tags \cup OtherTags, x \in Extras \ {None}}

\* the orders in which a HashMap with these keys may yield them
KeyOrders(m) ==
  {o \in UNION {[1..n -> DOMAIN m] : n \in {Cardinality(DOMAIN m)}} :
     \A k \in DOMAIN m : \E i \in DOMAIN o : o[i] = k}

\* userinfo payloads: "method:password" and malformed ones
ValidPayloads ==
  {as_str(m) \o <<":">> \o pw : m \in MethodsDrawn, pw \in Passwords}
  \cup {<<"r", "c", "4", "-", "m", "d", "5", ":", "p", "a", "s", "s", "w", "d">>, <<"a", "e", "s", "-", "1", "2", "8", "-", "g", "c", "m", ":", "t", "e", "s", "t">>}

OtherPayloads == {<<"a", "e", "s", "-", "1", "2", "8", "-", "g", "c", "m">>, <<"n", "o", "p", "e">>, <<"f", "o", "o", ":", "b", "a", "r">>, <<":", "t", "e", "s", "t">>, <<>>}

NoPad(s) == TrimEndMatches(s, "=")

\* userinfo texts that are not base64, or are base64 of bytes that are not UTF-8
BadUserinfos == {<<"!", "!">>, <<"Y">>, <<"g", "A">>, <<"Y", "R">>, <<"w", "6", "g">>, <<"w", "y", "g">>}

HostPorts ==
  {<<"1", "9", "2", ".", "1", "6", "8", ".", "1", "0", "0", ".", "1", ":", "8", "8", "8", "8">>, <<"[", "2", "0", "0", "1", ":", ":", "f", "f", "f", "e", "]", ":", "8", "8", "8", "8">>, <<"E", "x", "a", "m", "p", "l", "e", ".", "c", "o", "m", ":", "8", "0">>}

Suffixes ==
  {<<>>, <<"#", "F", "o", "o", "%", "2", "0", "B", "a", "r">>, <<"/", "?", "f", "o", "o", "=", "1">>, <<"/", "?", "p", "l", "u", "g", "i", "n", "=", "o", "b", "f", "s", "-", "l", "o", "c", "a", "l", "%", "3", "B", "o", "b", "f", "s", "%", "3", "D", "h", "t", "t", "p", "#", "x">>}

StructuredUri(userinfo, hostport, suffix) ==
  <<"s", "s", ":", "/", "/">> \o userinfo \o <<"@">> \o hostport \o suffix

\* structured URIs with unpadded base64 userinfo of a "method:password"
CanonicalSip002Uris ==
  {StructuredUri(NoPad(base64_encode(pl)), hp, sfx) :
     pl \in ValidPayloads, hp \in HostPorts, sfx \in Suffixes}

\* the same with the padding kept before the '@'
PaddedSip002Uris ==
  {StructuredUri(base64_encode(pl), hp, sfx) :
     pl \in ValidPayloads, hp \in HostPorts, sfx \in Suffixes}

\* canonical URIs that end in a tag, the form tests/test.rs parses
TaggedSip002Uris ==
  {StructuredUri(NoPad(base64_encode(pl)), hp, <<"#", "F", "o", "o", "%", "2", "0", "B", "a", "r">>) :
     pl \in ValidPayloads, hp \in HostPorts \ {<<"E", "x", "a", "m", "p", "l", "e", ".", "c", "o", "m", ":", "8", "0">>}}

\* URIs whose scheme, host and port are fine and whose userinfo is not
BadUserinfoUris ==
  {StructuredUri(ui, hp, sfx) :
     ui \in BadUserinfos, hp \in HostPorts, sfx \in {<<>>, <<"#", "F", "o", "o", "%", "2", "0", "B", "a", "r">>}}

MalformedSip002Uris ==
  BadUserinfoUris \cup
  {StructuredUri(NoPad(base64_encode(pl)), hp, sfx) :
     pl \in OtherPayloads, hp \in HostPorts, sfx \in {<<>>, <<"#", "F", "o", "o", "%", "2", "0", "B", "a", "r">>}}

\* legacy URIs, well-formed and not, and URIs both parsers accept or reject
LegacyBlobs ==
  {<<"b", "f", "-", "c", "f", "b", ":", "t", "e", "s", "t", "@", "1", "9", "2", ".", "1", "6", "8", ".", "1", "0", "0", ".", "1", ":", "8", "8", "8", "8">>, <<"b", "f", "-", "c", "f", "b", ":", "t", "e", "s", "t", "/", "!", "@", "#", ":", ".", "_", "-", "^", "'", "\\", "\"", "$", "@", "%", "@", "1", "9", "2", ".", "1", "6", "8", ".", "1", "0", "0", ".", "1", ":", "8", "8", "8", "8">>,
   <<"c", "h", "a", "c", "h", "a", "2", "0", "-", "i", "e", "t", "f", "-", "p", "o", "l", "y", "1", "3", "0", "5", ":", "p", "a", "s", "s", "w", "0", "r", "d", "@", "1", "9", "2", ".", "1", "6", "8", ".", "1", "0", "0", ".", "1", ":", "8", "0">>,
   <<"b", "f", "-", "c", "f", "b", ":", ":", "x", "@", "e", "x", "a", "m", "p", "l", "e", ".", "c", "o", "m", ":", "8", "0">>, <<"b", "f", "-", "c", "f", "b", ":", "t", "e", "s", "t", "@", "1", "9", "2", ".", "1", "6", "8", ".", "1", "0", "0", ".", "1">>,
   <<"b", "f", "-", "c", "f", "b", ":", "t", "e", "s", "t", "@", "1", "9", "2", ".", "1", "6", "8", ".", "1", "0", "0", ".", "1", ":", "9", "9", "9", "9", "9">>, <<"b", "f", "-", "c", "f", "b", ":", "t", "e", "s", "t", "@", "1", "9", "2", ".", "1", "6", "8", ".", "1", "0", "0", ".", "1", ":">>,
   <<"b", "f", "-", "c", "f", "b", ":", "t", "e", "s", "t", "@", "1", "9", "2", ".", "1", "6", "8", ".", "1", "0", "0", ".", "1", ":", "+", "8", "0">>, <<"b", "f", "-", "c", "f", "b", ":", "t", "e", "s", "t", "@", "1", "9", "2", ".", "1", "6", "8", ".", "1", "0", "0", ".", "1", ":", "a", "b", "c">>, <<"n", "o", "p", "e", ":", "t", "e", "s", "t", "@", "1", "9", "2", ".", "1", "6", "8", ".", "1", "0", "0", ".", "1", ":", "8", "0">>,
   <<"b", "f", "-", "c", "f", "b", ":", "t", "e", "s", "t", "@", "b", "a", "d", " ", "h", "o", "s", "t", ":", "8", "0">>, <<"b", "f", "-", "c", "f", "b">>}

LegacyUris ==
  {<<"s", "s", ":", "/", "/">> \o NoPad(base64_encode(b)) \o sfx :
     b \in LegacyBlobs, sfx \in {<<>>, <<"#", "F", "o", "o", " ", "B", "a", "r">>}}

OtherUris ==
  {<<"s", "s", ":", "/", "/", "Y", "W", "V", "z", "L", "T", "E", "y", "O", "C", "1", "n", "Y", "2", "0", "6", "d", "G", "V", "z", "d", "A", "@", "Y", "m", "Y", "t", "Y", "2", "Z", "i", "O", "n", "R", "l", "c", "3", "R", "A", "Z", "X", "h", "h", "b", "X", "B", "s", "Z", "S", "5", "j", "b", "2", "0", "6", "O", "D", "A", ":", "8", "8", "8", "8">>,
   <<"s", "s", ":", "/", "/", "g", "A", "@", "h", "o", "s", "t", ":", "8", "0">>,
   <<"h", "t", "t", "p", ":", "/", "/", "Y", "W", "V", "z", "L", "T", "E", "y", "O", "C", "1", "n", "Y", "2", "0", "6", "d", "G", "V", "z", "d", "A", "@", "1", "9", "2", ".", "1", "6", "8", ".", "1", "0", "0", ".", "1", ":", "8", "8", "8", "8">>,
   <<"s", "s", "x", ":", "/", "/", "Y", "W", "V", "z", "L", "T", "E", "y", "O", "C", "1", "n", "Y", "2", "0", "6", "d", "G", "V", "z", "d", "A", "@", "1", "9", "2", ".", "1", "6", "8", ".", "1", "0", "0", ".", "1", ":", "8", "8", "8", "8">>,
   <<"s", "s", ":", "/", "/", "Y", "W", "V", "z", "L", "T", "E", "y", "O", "C", "1", "n", "Y", "2", "0", "6", "d", "G", "V", "z", "d", "A", "@", "1", "9", "2", ".", "1", "6", "8", ".", "1", "0", "0", ".", "1">>,
   <<"s", "s", ":", "/", "/", "Y", "W", "V", "z", "L", "T", "E", "y", "O", "C", "1", "n", "Y", "2", "0", "6", "d", "G", "V", "z", "d", "A", "@", "1", "9", "2", ".", "1", "6", "8", ".", "1", "0", "0", ".", "1", ":", "9", "9", "9", "9", "9">>,
   <<"s", "s", ":", "/", "/", "1", "9", "2", ".", "1", "6", "8", ".", "1", "0", "0", ".", "1", ":", "8", "8", "8", "8">>, <<"s", "s", ":", "/", "/">>, <<"n", "o", "t", " ", "a", " ", "u", "r", "i">>, <<>>,
   <<"f", "o", "o", ":", "/", "/", "!", "!", "@", "h", "o", "s", "t">>, <<"s", ":", "/", "/", "Y", "W", "V", "z", "L", "T", "E", "y", "O", "C", "1", "n", "Y", "2", "0", "6", "d", "G", "V", "z", "d", "A", "@", "1", "9", "2", ".", "1", "6", "8", ".", "1", "0", "0", ".", "1", ":", "8", "8", "8", "8">>,
   <<"S", "S", ":", "/", "/", "Y", "W", "V", "z", "L", "T", "E", "y", "O", "C", "1", "n", "Y", "2", "0", "6", "d", "G", "V", "z", "d", "A", "@", "1", "9", "2", ".", "1", "6", "8", ".", "1", "0", "0", ".", "1", ":", "8", "8", "8", "8">>,
   <<"s", "s", ":", "/", "/", "Y", "W", "V", "z", "L", "T", "E", "y", "O", "C", "1", "n", "Y", "2", "0", "6", "d", "G", "V", "z", "d", "A", "@", "1", "9", "2", ".", "1", "6", "8", ".", "1", "0", "0", ".", "1", ":", "8", "8", "8", "8", "/", "?">>,
   <<"s", "s", ":", "/", "/", "Y", "W", "V", "z", "L", "T", "E", "y", "O", "C", "1", "n", "Y", "2", "0", "6", "d", "G", "V", "z", "d", "A", "@", "1", "9", "2", ".", "1", "6", "8", ".", "1", "0", "0", ".", "1", ":", "8", "8", "8", "8", "/", "?", "&", "#", "x">>,
   <<"s", "s", ":", "/", "/", "Y", "W", "V", "z", "L", "T", "E", "y", "O", "C", "1", "n", "Y", "2", "0", "6", "d", "G", "V", "z", "d", "A", "@", "1", "9", "2", ".", "1", "6", "8", ".", "1", "0", "0", ".", "1", ":", "8", "8", "8", "8", "/", "?", "=", "#", "x">>}

ReceivedUris ==
  CanonicalSip002Uris \cup PaddedSip002Uris \cup MalformedSip002Uris
  \cup LegacyUris \cup OtherUris

Uppercase(s) == [i \in 1..Len(s) |-> IF s[i] \in LowerAlpha THEN Chr(Ord[s[i]] - 32) ELSE s[i]]

\* method tokens: the canonical ones and near misses of each
ReceivedTokens ==
  UNION {{as_str(m), Uppercase(as_str(m)), <<" ">> \o as_str(m), as_str(m) \o <<" ">>,
          SubSeq(as_str(m), 1, Len(as_str(m)) - 1), as_str(m) \o <<"x">>} : m \in Method}
  \cup {<<>>, <<"a", "e", "s">>, <<"A", "E", "S", "-", "1", "2", "8", "-", "G", "C", "M">>, <<"A", "e", "s", "1", "2", "8", "G", "c", "m">>}

\* ssconf:// URIs in parts: host, port, path and fragment parameters
SsconfHosts ==
  {<<"m", "y", ".", "d", "o", "m", "a", "i", "n", ".", "c", "o", "m">>, <<"1", ".", "2", ".", "3", ".", "4">>, <<"[", "2", "0", "0", "1", ":", "0", ":", "c", "e", "4", "9", ":", "7", "6", "0", "1", ":", "e", "8", "6", "6", ":", "e", "f", "f", "f", ":", "6", "2", "c", "3", ":", "f", "f", "f", "e", "]">>}

SsconfPorts == {None, Some(9090), Some(443)}

SsconfPaths == {<<>>, <<"/", "s", "e", "c", "r", "e", "t", "/", "l", "o", "n", "g", "/", "p", "a", "t", "h">>}

SsconfFragments ==
  {None,
   Some(<<>>),
   Some(<< <<<<"c", "e", "r", "t", "F", "p">>, <<"A", "A", ":", "B", "B", ":", "C", "C", ":", "D", "D", ":", "E", "E", ":", "F", "F">>>>, <<<<"h", "t", "t", "p", "M", "e", "t", "h", "o", "d">>, <<"P", "O", "S", "T">>>> >>),
   Some(<< <<<<"c", "e", "r", "t", "F", "p">>, <<"A", "A", ":", "B", "B", ":", "C", "C", ":", "D", "D", ":", "E", "E", ":", "F", "F">>>>, <<<<"o", "t", "h", "e", "r">>, <<"p", "a", "r", "a", "m">>>> >>),
   Some(<< <<<<"c", "e", "r", "t", "F", "p">>, <<"%", "2", "6", "%", "3", "D", "%", "3", "F", "%", "3", "A", "%", "2", "5">>>>, <<<<"h", "t", "t", "p", "M", "e", "t", "h", "o", "d">>, <<"G", "E", "T">>>> >>),
   Some(<< <<<<"o", "t", "h", "e", "r">>, <<"p", "a", "r", "a", "m">>>>, <<<<"h", "t", "t", "p", "M", "e", "t", "h", "o", "d">>, <<"a", "+", "b">>>> >>)}

SsconfParts ==
  [host : SsconfHosts, port : SsconfPorts, path : SsconfPaths,
   fragment : SsconfFragments]

\* the URI the parts are written as
SsconfUri(p) ==
  <<"s", "s", "c", "o", "n", "f", ":", "/", "/">> \o p.host
  \o (IF p.port = None THEN <<>> ELSE <<":">> \o DecimalText(p.port.v))
  \o p.path
  \o (IF p.fragment = None THEN <<>>
      ELSE <<"#">> \o Join([i \in 1..Len(p.fragment.v) |->
                              p.fragment.v[i][1] \o <<"=">> \o p.fragment.v[i][2]],
                           <<"&">>))

\* texts SIP008Config::parse rejects
OtherSsconfUris ==
  {<<"h", "t", "t", "p", ":", "/", "/", "m", "y", ".", "d", "o", "m", "a", "i", "n", ".", "c", "o", "m", "/", "s", "e", "c", "r", "e", "t">>, <<"s", "s", "c", "o", "n", "f", ":", "/", "s", "e", "c", "r", "e", "t">>, <<"n", "o", "t", " ", "a", " ", "u", "r", "i">>}

SsconfInputs ==
  {[uri |-> SsconfUri(p), parts |-> Some(p)] : p \in SsconfParts}
  \cup {[uri |-> u, parts |-> None] : u \in OtherSsconfUris}

\* texts with '=' and '@' in every arrangement
MaxPaddedLen == 5

PaddedTexts == TextsUpTo({"=", "@", "a"}, MaxPaddedLen)
---------------------------------------------------------------------------
(* The calls a client makes *)

Init ==
  /\ calls = <<>>
  /\ value = None
  /\ text = <<>>
  /\ result = None
  /\ second = None

\* config.to_sip002()
ToSip002(c, order) ==
  /\ calls = <<>>
  /\ calls' = <<"to_sip002">>
  /\ value' = c
  /\ text' = to_sip002(c, order)
  /\ UNCHANGED <<result, second>>

\* config.to_legacy_base64_encoded()
ToLegacy(c) ==
  /\ calls = <<>>
  /\ calls' = <<"to_legacy_base64_encoded">>
  /\ value' = c
  /\ text' = to_legacy_base64_encoded(c)
  /\ UNCHANGED <<result, second>>

\* a URI arrives from elsewhere
Receive(u) ==
  /\ calls = <<>>
  /\ calls' = <<"receive">>
  /\ text' = u
  /\ UNCHANGED <<value, result, second>>

HasUri == Len(calls) = 1 /\ calls[1] \in {"to_sip002", "to_legacy_base64_encoded", "receive"}

\* SSConfig::parse(text)
Parse ==
  /\ HasUri
  /\ calls' = Append(calls, "parse")
  /\ result' = parse(text)
  /\ UNCHANGED <<value, text, second>>

\* SSConfig::parse_sip002(text)
ParseSip002 ==
  /\ HasUri
  /\ calls' = Append(calls, "parse_sip002")
  /\ result' = parse_sip002(text)
  /\ UNCHANGED <<value, text, second>>

\* SSConfig::parse_legacy_base64(text)
ParseLegacy ==
  /\ HasUri
  /\ calls' = Append(calls, "parse_legacy_base64")
  /\ result' = parse_legacy_base64(text)
  /\ UNCHANGED <<value, text, second>>

\* the parsed configuration is serialised again, as tests/test.rs does
Reserialize ==
  /\ Len(calls) = 2 /\ calls[2] = "parse"
  /\ IsOk(result)
  /\ \E order \in (IF result.value.extra = None THEN {<<>>}
                   ELSE KeyOrders(result.value.extra.v)) :
       second' = to_sip002(result.value, order)
  /\ calls' = Append(calls, "to_sip002")
  /\ UNCHANGED <<value, text, result>>

\* the received URI with the '=' padding of its userinfo put before the '@'
WithPadding(u) ==
  LET at == Find(u, "@")
      n  == at - 1 - 5
      pad == IF n % 4 = 2 THEN <<"=", "=">> ELSE IF n % 4 = 3 THEN <<"=">> ELSE <<>>
  IN SubSeq(u, 1, at - 1) \o pad \o SubSeq(u, at, Len(u))

\* SSConfig::parse_sip002 on the padded form of the URI just parsed
ParseSip002Padded ==
  /\ calls = <<"receive", "parse_sip002">>
  /\ text \in CanonicalSip002Uris
  /\ calls' = Append(calls, "parse_sip002")
  /\ second' = parse_sip002(WithPadding(text))
  /\ UNCHANGED <<value, text, result>>

\* method.as_str()
MethodAsStr(m) ==
  /\ calls = <<>>
  /\ calls' = <<"as_str">>
  /\ value' = m
  /\ text' = as_str(m)
  /\ UNCHANGED <<result, second>>

\* a method token arrives from elsewhere
ReceiveToken(t) ==
  /\ calls = <<>>
  /\ calls' = <<"receive_token">>
  /\ text' = t
  /\ UNCHANGED <<value, result, second>>

\* Method::try_from(text)
MethodTryFrom ==
  /\ Len(calls) = 1 /\ calls[1] \in {"as_str", "receive_token"}
  /\ calls' = Append(calls, "try_from")
  /\ result' = try_from(text)
  /\ UNCHANGED <<value, text, second>>

\* as_str() of the method just parsed
MethodAsStrBack ==
  /\ calls = <<"receive_token", "try_from">>
  /\ IsOk(result)
  /\ calls' = Append(calls, "as_str")
  /\ second' = as_str(result.value)
  /\ UNCHANGED <<value, text, result>>

\* a text arrives to be read as an ssconf:// URI; i.parts are the parts it
\* was written from, if it was
ReceiveSsconf(i) ==
  /\ calls = <<>>
  /\ calls' = <<"receive_ssconf">>
  /\ value' = i.parts
  /\ text' = i.uri
  /\ UNCHANGED <<result, second>>

\* SIP008Config::parse(text)
ParseSip008 ==
  /\ calls = <<"receive_ssconf">>
  /\ calls' = Append(calls, "sip008_parse")
  /\ result' = SIP008Config_parse(text)
  /\ UNCHANGED <<value, text, second>>

\* SSConfig::remove_unsafe_padding(s), as parse_sip002 calls it on its input
RemoveUnsafePadding(s) ==
  /\ calls = <<>>
  /\ calls' = <<"remove_unsafe_padding">>
  /\ text' = s
  /\ result' = Some(remove_unsafe_padding(s))
  /\ UNCHANGED <<value, second>>

\* SSConfig::remove_unsafe_padding on the text it has just returned
RemoveUnsafePaddingAgain ==
  /\ calls = <<"remove_unsafe_padding">>
  /\ calls' = Append(calls, "remove_unsafe_padding")
  /\ second' = Some(remove_unsafe_padding(result.v))
  /\ UNCHANGED <<value, text, result>>

Next ==
  \/ \E c \in Configs :
       \E order \in (IF c.extra = None THEN {<<>>} ELSE KeyOrders(c.extra.v)) :
         ToSip002(c, order)
  \/ \E c \in Configs : ToLegacy(c)
  \/ \E u \in ReceivedUris : Receive(u)
  \/ Parse
  \/ ParseSip002
  \/ ParseLegacy
  \/ Reserialize
  \/ ParseSip002Padded
  \/ \E m \in Method : MethodAsStr(m)
  \/ \E t \in ReceivedTokens : ReceiveToken(t)
  \/ MethodTryFrom
  \/ MethodAsStrBack
  \/ \E i \in SsconfInputs : ReceiveSsconf(i)
  \/ ParseSip008
  \/ \E s \in PaddedTexts : RemoveUnsafePadding(s)
  \/ RemoveUnsafePaddingAgain

Spec == Init /\ [][Next]_vars

---------------------------------------------------------------------------
(* The properties *)

\* C1: parse(s) is parse_sip002(s) whenever that succeeds, even if
\* parse_legacy_base64(s) would succeed too; otherwise it is
\* parse_legacy_base64(s) when that succeeds; and when both fail it is the
\* error of parse_sip002(s), never the error of parse_legacy_base64(s).
ParseIsSip002ThenLegacyThenSip002Error ==
  (Len(calls) >= 2 /\ calls[2] = "parse") =>
    /\ parse_sip002(text).ok => result = parse_sip002(text)
    /\ (~parse_sip002(text).ok /\ parse_legacy_base64(text).ok)
         => result = parse_legacy_base64(text)
    /\ (~parse_sip002(text).ok /\ ~parse_legacy_base64(text).ok)
         => result = Err(parse_sip002(text).error)

\* parse has returned for a URI on which the two parsers fail differently
BothParsersFailedDifferently ==
  /\ calls = <<"receive", "parse">>
  /\ ~result.ok
  /\ ~parse_legacy_base64(text).ok
  /\ parse_legacy_base64(text).error # parse_sip002(text).error

\* C2: for every configuration c with extra = None,
\* parse_sip002(to_sip002(c)) succeeds and equals c in all six fields.
Sip002RoundTripWithoutExtra ==
  (calls = <<"to_sip002", "parse_sip002">> /\ value.extra = None)
    => result = Ok(value)

\* C3: for every configuration c whose extra is a non-empty map of
\* alphanumeric keys and values, parse_sip002(to_sip002(c)) succeeds and its
\* extra is Some of the same map.
Sip002RoundTripKeepsExtra ==
  (calls = <<"to_sip002", "parse_sip002">> /\ value.extra # None)
    => (result.ok /\ result.value.extra = value.extra)

\* C4: for every configuration c with extra = None,
\* parse_legacy_base64(to_legacy_base64_encoded(c)) succeeds and equals c.
LegacyRoundTripWithoutExtra ==
  (calls = <<"to_legacy_base64_encoded", "parse_legacy_base64">>
   /\ value.extra = None)
    => result = Ok(value)

\* C5: try_from succeeds on each of the 19 canonical tokens and as_str of
\* the result is the token; try_from(as_str(m)) is m for each of the 19
\* variants; every other text, case variants and texts with surrounding
\* whitespace included, yields UnknownMethod.
MethodRegistryIsAClosedBijection ==
  /\ Cardinality(Method) = 19
  /\ Cardinality({as_str(m) : m \in Method}) = 19
  /\ calls = <<"as_str", "try_from">> => result = Ok(value)
  /\ (Len(calls) >= 2 /\ calls[1] = "receive_token") =>
       IF text \in {as_str(m) : m \in Method}
       THEN result.ok /\ as_str(result.value) = text
       ELSE result = Err("UnknownMethod")
  /\ calls = <<"receive_token", "try_from", "as_str">> => second = text

\* a canonical token was received, parsed and printed back
TokenParsedAndPrintedBack ==
  /\ calls = <<"receive_token", "try_from", "as_str">>
  /\ result = Ok("Chacha20IetfPoly1305")
  /\ second = text

\* the text the userinfo (or, in a legacy URI, the host) of a parsed URL
\* decodes to
DecodedText(decoded) ==
  IF decoded.ok /\ from_utf8(decoded.value).ok
  THEN Some(from_utf8(decoded.value).value) ELSE None

DecodedUserinfoText(url) ==
  IF url.ok THEN DecodedText(base64_decode(url.value.username)) ELSE None

DecodedLegacyText(url) ==
  IF url.ok /\ host_str(url.value) # None
  THEN DecodedText(base64_decode(host_str(url.value).v)) ELSE None

AfterFirstColon(d) == SubSeq(d, Find(d, ":") + 1, Len(d))

BetweenFirstColonAndLastAt(d) == SubSeq(d, Find(d, ":") + 1, RFind(d, "@") - 1)

\* C6: when the userinfo decodes to "<valid-method>:<p>", the password
\* parse_sip002 returns is p verbatim, all that follows the first ':',
\* further ':' included.
Sip002PasswordIsAllAfterFirstColon ==
  (Len(calls) = 2 /\ calls[2] = "parse_sip002" /\ result.ok) =>
    result.value.password =
      AfterFirstColon(DecodedUserinfoText(Url_parse(remove_unsafe_padding(text))).v)

\* C7: when the legacy blob decodes to "<valid-method>:<p>@<host>:<port>",
\* the password parse_legacy_base64 returns is the text between the first
\* ':' and the last '@', nothing added or removed, also when p contains or
\* begins with ':' or contains '@'.
LegacyPasswordIsBetweenFirstColonAndLastAt ==
  (Len(calls) = 2 /\ calls[2] = "parse_legacy_base64" /\ result.ok) =>
    result.value.password =
      BetweenFirstColonAndLastAt(DecodedLegacyText(Url_parse(text)).v)

\* C8: for every payload "method:password" and every host, port and tag,
\* the URI with the unpadded base64 userinfo and the URI with the same
\* userinfo followed by its '=' padding both parse with parse_sip002, to
\* identical configurations.
PaddedAndUnpaddedParseAlike ==
  (calls = <<"receive", "parse_sip002", "parse_sip002">>) =>
    (result.ok /\ second = result)

\* C9: for a canonical URI u of the form
\* ss://<unpadded-base64-userinfo>@<host>:<port>#<percent-encoded-tag>,
\* to_sip002(parse(u)) is exactly u.
ReserializedUriIsTheUriParsed ==
  (calls = <<"receive", "parse", "to_sip002">> /\ text \in TaggedSip002Uris)
    => second = text

\* C10: in parse_sip002, a userinfo that is not valid base64, or whose
\* decoded bytes are not valid UTF-8, yields InvalidUrl when scheme, host
\* and port are valid.
BadUserinfoIsInvalidUrl ==
  (Len(calls) = 2 /\ calls[2] = "parse_sip002" /\ text \in BadUserinfoUris)
    => result = Err("InvalidUrl")

\* C11: in parse_sip002, when the decoded userinfo contains no ':', the
\* result is InvalidPassword, whatever the text before the missing ':' is,
\* given valid scheme, host and port.
NoColonIsInvalidPassword ==
  (/\ Len(calls) = 2 /\ calls[2] = "parse_sip002"
   /\ text \in MalformedSip002Uris
   /\ DecodedUserinfoText(Url_parse(remove_unsafe_padding(text))) # None
   /\ Find(DecodedUserinfoText(Url_parse(remove_unsafe_padding(text))).v, ":") = 0)
    => result = Err("InvalidPassword")

\* the text after the last '@' of a decoded legacy blob, and its port
AfterLastAt(d) == SubSeq(d, RFind(d, "@") + 1, Len(d))

AfterLastColon(hp) == SubSeq(hp, RFind(hp, ":") + 1, Len(hp))

\* the blob starts with a valid method and a ':' and has an '@' after them
HasMethodAndAt(d) ==
  /\ Find(d, ":") > 0
  /\ try_from(SubSeq(d, 1, Find(d, ":") - 1)).ok
  /\ RFind(d, "@") > Find(d, ":")

\* the port is missing, is not a number, or exceeds 65535
PortIsMissingOrBad(hp) ==
  \/ RFind(hp, ":") = 0
  \/ AfterLastColon(hp) = <<>>
  \/ SkipPlus(AfterLastColon(hp)) = <<>>
  \/ ~AllDigits(SkipPlus(AfterLastColon(hp)))
  \/ DecimalValue(SkipPlus(AfterLastColon(hp))) > 65535

BlobWithBadPort(decoded) ==
  /\ decoded # None
  /\ HasMethodAndAt(decoded.v)
  /\ PortIsMissingOrBad(AfterLastAt(decoded.v))

\* C12: in parse_legacy_base64, for a decoded blob with a valid method and
\* an '@', the result is InvalidPort whenever the port is missing (no ':' in
\* the final segment, or nothing after it), is not a number, or exceeds 65535.
LegacyBadPortIsInvalidPort ==
  (/\ Len(calls) = 2 /\ calls[2] = "parse_legacy_base64"
   /\ BlobWithBadPort(DecodedLegacyText(Url_parse(text))))
    => result = Err("InvalidPort")

\* the query pairs of a parsed URL
QueryPairsOf(url) ==
  IF url.value.query = None THEN EmptyMap ELSE FormParse(url.value.query.v)

\* C13: a parsed SSConfig never has extra = Some(empty map): parse_sip002
\* returns extra = None when the URI has no query pairs and Some of a
\* non-empty map otherwise, parse_legacy_base64 always returns extra = None,
\* and so parse never yields Some(empty map).
ExtraIsNeverAnEmptyMap ==
  (/\ Len(calls) >= 2
   /\ calls[2] \in {"parse", "parse_sip002", "parse_legacy_base64"}
   /\ result.ok) =>
    /\ result.value.extra # None => DOMAIN result.value.extra.v # {}
    /\ calls[2] = "parse_legacy_base64" => result.value.extra = None
    /\ calls[2] = "parse_sip002" =>
         (result.value.extra = None
            <=> DOMAIN QueryPairsOf(Url_parse(remove_unsafe_padding(text))) = {})

\* parse_sip002 has returned extra = None for a URI with an empty query
EmptyQueryParsedAsNone ==
  /\ calls = <<"receive", "parse_sip002">>
  /\ Find(text, "?") > 0
  /\ result.ok
  /\ result.value.extra = None

\* the percent-decoded value of the last parameter named key, if any
RECURSIVE ParamOf(_, _, _)
ParamOf(params, key, found) ==
  IF Len(params) = 0 THEN found
  ELSE ParamOf(Tail(params), key,
               IF Head(params)[1] = key
               THEN Some(percent_decode_lossy(Head(params)[2])) ELSE found)

FragmentParamsOf(p) == IF p.fragment = None THEN <<>> ELSE p.fragment.v

\* C14: SIP008Config::parse of ssconf://host[:port][path][#fragment] returns
\* location = "https://" + host + ":" + (the port if present, else 443) +
\* path, cert_finger_print = the percent-decoded value of the fragment
\* parameter certFp if present, else None, and http_method likewise from
\* httpMethod; other fragment parameters are ignored.
Sip008ResolvesLocationAndParameters ==
  (calls = <<"receive_ssconf", "sip008_parse">> /\ value # None) =>
    result = Ok(SIP008Config(
               <<"h", "t", "t", "p", "s", ":", "/", "/">> \o value.v.host \o <<":">>
                 \o DecimalText(IF value.v.port = None THEN 443 ELSE value.v.port.v)
                 \o value.v.path,
               ParamOf(FragmentParamsOf(value.v), <<"c", "e", "r", "t", "F", "p">>, None),
               ParamOf(FragmentParamsOf(value.v),
                       <<"h", "t", "t", "p", "M", "e", "t", "h", "o", "d">>, None)))

\* the text a serialiser wrote after the '#'
AfterHash(s) == SubSeq(s, Find(s, "#") + 1, Len(s))

\* f is the tag with every character outside ASCII letters and digits
\* written as a '%' escape, and no other character escaped
IsEscapedTag(f, tag) ==
  /\ \A i \in 1..Len(f) : f[i] \in AlphaNumeric \cup {"%"}
  /\ Len(f) = Len(tag) + 2 * Cardinality({i \in 1..Len(tag) : tag[i] \notin AlphaNumeric})
  /\ PercentDecodeBytes(f) = Bytes(tag)

\* the configuration serialised as the call in calls[1] does
SerializedAs(call, c) ==
  IF call = "to_legacy_base64_encoded" THEN {to_legacy_base64_encoded(c)}
  ELSE {to_sip002(c, order) :
          order \in (IF c.extra = None THEN {<<>>} ELSE KeyOrders(c.extra.v))}

\* C15: to_sip002 and to_legacy_base64_encoded emit a '#' fragment if and
\* only if tag is Some and non-empty; when emitted, every character of the
\* tag outside ASCII letters and digits is percent-encoded; tag = None and
\* tag = Some("") serialise to the same text, with no '#'.
FragmentIffTagNonEmpty ==
  (Len(calls) >= 1 /\ calls[1] \in {"to_sip002", "to_legacy_base64_encoded"}) =>
    /\ Find(text, "#") > 0 <=> (value.tag # None /\ value.tag.v # <<>>)
    /\ Find(text, "#") > 0 => IsEscapedTag(AfterHash(text), value.tag.v)
    /\ (value.tag # None /\ value.tag.v = <<>>) =>
         text \in SerializedAs(calls[1], [value EXCEPT !.tag = None])

\* a configuration whose tag is Some("") was serialised, without a '#'
EmptyTagSerialized ==
  /\ calls = <<"to_sip002">>
  /\ value.tag # None
  /\ value.tag.v = <<>>
  /\ Find(text, "#") = 0

\* a URL the parser accepted passes the check exactly when its scheme
\* starts with "ss", and is rejected as InvalidProtocol otherwise
PrefixDecides(url, r) ==
  url.ok =>
    IF StartsWith(url.value.scheme, <<"s", "s">>)
    THEN r # Err("InvalidProtocol")
    ELSE r = Err("InvalidProtocol")

\* C16: in parse_sip002 and parse_legacy_base64 the scheme check is a prefix
\* test: a URI the URL parser accepts passes it when its scheme is "ss" or
\* "ss" plus any suffix, and a URI whose scheme does not start with "ss"
\* yields InvalidProtocol before host, port, method or password are examined.
SchemeCheckIsAPrefixTest ==
  /\ (Len(calls) = 2 /\ calls[2] = "parse_sip002") =>
       PrefixDecides(Url_parse(remove_unsafe_padding(text)), result)
  /\ (Len(calls) = 2 /\ calls[2] = "parse_legacy_base64") =>
       PrefixDecides(Url_parse(text), result)

\* parse_sip002 has accepted a URI whose scheme is "ss" plus a suffix
SuffixedSchemeAccepted ==
  /\ calls = <<"receive", "parse_sip002">>
  /\ StartsWith(text, <<"s", "s", "x", ":">>)
  /\ result.ok

\* the segments of s between the occurrences of "=@", each without the '='
\* it begins and ends with
StrippedSegments(s) ==
  [i \in 1..Len(SplitPair(s, "=", "@")) |->
     TrimMatches(SplitPair(s, "=", "@")[i], "=")]

\* C17: remove_unsafe_padding returns its input unchanged when it contains
\* no "=@"; otherwise it splits at every "=@", strips all leading and
\* trailing '=' from each segment and rejoins with '@'; the output never
\* contains "=@", so the normalisation is idempotent.
PaddingRemovalIsIdempotent ==
  (Len(calls) >= 1 /\ calls[1] = "remove_unsafe_padding") =>
    /\ FindPair(text, "=", "@") = 0 => result.v = text
    /\ FindPair(text, "=", "@") > 0 =>
         result.v = Join(StrippedSegments(text), <<"@">>)
    /\ FindPair(result.v, "=", "@") = 0
    /\ Len(calls) = 2 => second = result

\* a text with "=@" was normalised, and normalised again
PaddingRemovedTwice ==
  /\ calls = <<"remove_unsafe_padding", "remove_unsafe_padding">>
  /\ FindPair(text, "=", "@") > 0
  /\ result.v # text
  /\ second = result
====
